---- MODULE Spec2Model ----
(***************************************************************************)
(* Roster and attendance tracker (src/index.tsx): the schema validator,    *)
(* the roster store held in the App component's state, and the import      *)
(* flow.  Korean string literals of the source are written romanised:      *)
(*   '출석' = "chulseok" (present)    '결석' = "gyeolseok" (absent)        *)
(*   '미정' = "mijeong"  (unset)      '전체' = "jeonche"   (all)           *)
(***************************************************************************)
EXTENDS Integers, Sequences, FiniteSets, TLC

VARIABLES
    members,            \* useState<Member[]>: the roster, in array order
    selectedMemberIds,  \* useState<Set<number>>
    positionFilter,     \* useState<string>
    statusFilter,       \* useState<AttendanceStatus | '전체'>
    viewingDate,        \* useState<string>
    year,               \* useState<number>
    currentPage,        \* useState<number>
    importPc,           \* where handleImportData stands: idle / reading / alert
    importAlert,        \* the alert() handleImportData is showing, if any
    parsedData,         \* the value handed to validateImportedData
    validation,         \* what validateImportedData returned for parsedData
    stored,             \* localStorage.getItem(LOCAL_STORAGE_KEY): a text or null
    storageOk,          \* whether localStorage.setItem succeeds in this browser
    mounted,            \* the effects of the first render have run
    viewingMember,      \* useState<Member | null>: the member the detail modal shows
    timeZone            \* the time zone of the browser

vars == <<members, selectedMemberIds, positionFilter, statusFilter, viewingDate,
          year, currentPage, importPc, importAlert, parsedData, validation,
          stored, storageOk, mounted, viewingMember, timeZone>>

\* what the handlers of the roster store never assign
envVars == <<storageOk, mounted, viewingMember, timeZone>>

----------------------------------------------------------------------------
(* Program constants *)

POSITIONS == <<"moksa", "bumoksa", "samo", "jeondosa", "jangno", "gwonsa",
               "jipsa", "seongdo", "cheongnyeon", "haksaeng", "juilhakgyo", "gita">>

ATTENDANCE_STATUSES == <<"chulseok", "gyeolseok">>

ALL_FILTER == "jeonche"

ITEMS_PER_PAGE == 15

UNSET == "mijeong"

Includes(seq, x) == \E i \in 1..Len(seq) : seq[i] = x

----------------------------------------------------------------------------
(* Bounds of the model *)

MaxMembers == 2     \* add is explored while the roster is shorter than this
MaxId == 3          \* add is explored while the id it assigns is at most this
MaxMarks == 2       \* attendance entries of the roster explored by SpecAttendance
MaxDataLen == 2     \* length of the arrays handed to the validator
MaxPersistMembers == 1 \* SpecPersist explores add while the roster is shorter than this
MaxYearShift == 1   \* SpecView explores the year navigator this far from the current year

\* getTodayString() and new Date().getFullYear() at the time of the run
getTodayString == "2024-03-03"
CurrentYear == 2024
CurrentMonth == 2   \* new Date().getMonth(): March

\* Attendance keys of the model and whether /^\d{4}-\d{2}-\d{2}$/ matches them
DateKeys == {"2024-01-07", "2024-03-03", "2024-1-7"}
MatchesDatePattern(key) == key \in {"2024-01-07", "2024-03-03", "2024-03-01", "2023-03-05"}
Dates == {"2024-01-07", "2024-03-03"}

----------------------------------------------------------------------------
(* JavaScript values, as JSON.parse produces them *)

Undefined == [t |-> "undefined"]
Null == [t |-> "null"]
Num(n) == [t |-> "number", n |-> n]
Str(s) == [t |-> "string", s |-> s]
Obj(props) == [t |-> "object", props |-> props]   \* props: <<key, value>> in key order
Arr(items) == [t |-> "array", items |-> items]

\* typeof v
TypeOf(v) == IF v.t \in {"null", "object", "array"} THEN "object" ELSE v.t

\* v[key] for a string key that is no array index
Get(v, key) ==
    IF v.t = "object" /\ \E i \in 1..Len(v.props) : v.props[i][1] = key
    THEN v.props[CHOOSE i \in 1..Len(v.props) : v.props[i][1] = key][2]
    ELSE Undefined

\* the own enumerable properties a for-in loop visits, in order
OwnEntries(v) == IF v.t = "object" THEN v.props ELSE <<>>

\* whether the record r has the property f
HasField(r, f) == f \in DOMAIN r

\* `member as Member`: the same object, read through the Member interface.
\* The cast checks nothing: an object without an attendance map stays without
\* one, and a status property the interface does not declare stays on it.
AsMember(o) ==
    LET base == [id |-> Get(o, "id").n,
                 name |-> Get(o, "name").s,
                 position |-> Get(o, "position").s,
                 phone |-> Get(o, "phone").s]
        withAttendance ==
            IF Get(o, "attendance") = Undefined THEN base
            ELSE base @@ ("attendance" :>
                     [k \in 1..Len(OwnEntries(Get(o, "attendance"))) |->
                         <<OwnEntries(Get(o, "attendance"))[k][1],
                           OwnEntries(Get(o, "attendance"))[k][2].s>>])
    IN IF Get(o, "status") = Undefined THEN withAttendance
       ELSE withAttendance @@ ("status" :> Get(o, "status").s)

\* JSON.stringify of one Member, as the document the text denotes
MemberToJson(m) ==
    Obj(<< <<"id", Num(m.id)>>,
           <<"name", Str(m.name)>>,
           <<"position", Str(m.position)>>,
           <<"phone", Str(m.phone)>> >>
        \o (IF HasField(m, "attendance")
            THEN << <<"attendance", Obj([k \in 1..Len(m.attendance) |->
                                           <<m.attendance[k][1], Str(m.attendance[k][2])>>])>> >>
            ELSE <<>>)
        \o (IF HasField(m, "status") THEN << <<"status", Str(m.status)>> >> ELSE <<>>))

\* JSON.stringify(members): a well-formed text denoting an array of objects
JSONstringify(ms) ==
    [wellFormed |-> TRUE, doc |-> Arr([i \in 1..Len(ms) |-> MemberToJson(ms[i])])]

\* JSON.parse(text); it throws on a text that is not well-formed
JSONparse(text) == text.doc

----------------------------------------------------------------------------
(* validateImportedData *)

\* the two shapes of the validator's result (lines 316 and 345); a Member[]
\* is written as an array value whose items are Member records
Invalid(e) == [isValid |-> FALSE, error |-> e, validatedMembers |-> Null]
Valid(ms) == [isValid |-> TRUE, error |-> Null, validatedMembers |-> Arr(ms)]

\* BadAttendanceEntry with a seeded fault: only the first status is accepted
BadAttendanceEntryOneStatus(e) ==
    ~MatchesDatePattern(e[1]) \/ ~(e[2].t = "string" /\ e[2].s = ATTENDANCE_STATUSES[1])

\* the test of line 337 on one attendance entry
BadAttendanceEntry(e) ==
    ~MatchesDatePattern(e[1]) \/ ~Includes(ATTENDANCE_STATUSES, IF e[2].t = "string" THEN e[2].s ELSE "")

\* the first entry the for-in loop of lines 335-341 rejects, 0 if none
FirstBadEntry(att) ==
    IF \E k \in 1..Len(OwnEntries(att)) : BadAttendanceEntry(OwnEntries(att)[k])
    THEN CHOOSE k \in 1..Len(OwnEntries(att)) :
            /\ BadAttendanceEntry(OwnEntries(att)[k])
            /\ \A j \in 1..(k - 1) : ~BadAttendanceEntry(OwnEntries(att)[j])
    ELSE 0

\* ElementError with a seeded fault: 'phone' is checked before 'position'
ElementErrorPhoneFirst(member, i) ==
    IF TypeOf(member) # "object" \/ member = Null
        THEN [msg |-> "ElementNotObject", at |-> i]
    ELSE IF TypeOf(Get(member, "id")) # "number"
        THEN [msg |-> "MissingId", at |-> i]
    ELSE IF TypeOf(Get(member, "name")) # "string"
        THEN [msg |-> "MissingName", at |-> i]
    ELSE IF TypeOf(Get(member, "phone")) # "string"
        THEN [msg |-> "MissingPhone", at |-> i]
    ELSE IF TypeOf(Get(member, "position")) # "string"
            \/ ~Includes(POSITIONS, Get(member, "position").s)
        THEN [msg |-> "InvalidPosition", at |-> i, value |-> Get(member, "position")]
    ELSE IF TypeOf(Get(member, "attendance")) # "object" \/ Get(member, "attendance") = Null
        THEN [msg |-> "MissingAttendance", at |-> i]
    ELSE IF FirstBadEntry(Get(member, "attendance")) # 0
        THEN LET e == OwnEntries(Get(member, "attendance"))[FirstBadEntry(Get(member, "attendance"))]
             IN [msg |-> "InvalidAttendanceEntry", name |-> Get(member, "name").s,
                 date |-> e[1], value |-> e[2]]
    ELSE Null

\* ElementError with a seeded fault: any text passes as a position
ElementErrorAnyPosition(member, i) ==
    IF TypeOf(member) # "object" \/ member = Null
        THEN [msg |-> "ElementNotObject", at |-> i]
    ELSE IF TypeOf(Get(member, "id")) # "number"
        THEN [msg |-> "MissingId", at |-> i]
    ELSE IF TypeOf(Get(member, "name")) # "string"
        THEN [msg |-> "MissingName", at |-> i]
    ELSE IF TypeOf(Get(member, "position")) # "string"
        THEN [msg |-> "InvalidPosition", at |-> i, value |-> Get(member, "position")]
    ELSE IF TypeOf(Get(member, "phone")) # "string"
        THEN [msg |-> "MissingPhone", at |-> i]
    ELSE IF TypeOf(Get(member, "attendance")) # "object" \/ Get(member, "attendance") = Null
        THEN [msg |-> "MissingAttendance", at |-> i]
    ELSE IF FirstBadEntry(Get(member, "attendance")) # 0
        THEN LET e == OwnEntries(Get(member, "attendance"))[FirstBadEntry(Get(member, "attendance"))]
             IN [msg |-> "InvalidAttendanceEntry", name |-> Get(member, "name").s,
                 date |-> e[1], value |-> e[2]]
    ELSE Null

\* the checks of lines 325-341 on data[i]: the error of the first one that
\* fails, null if none does (i is 0-based in the source and 1-based here; the
\* messages cite the source's i + 1)
ElementError(member, i) ==
    IF TypeOf(member) # "object" \/ member = Null
        THEN [msg |-> "ElementNotObject", at |-> i]
    ELSE IF TypeOf(Get(member, "id")) # "number"
        THEN [msg |-> "MissingId", at |-> i]
    ELSE IF TypeOf(Get(member, "name")) # "string"
        THEN [msg |-> "MissingName", at |-> i]
    ELSE IF TypeOf(Get(member, "position")) # "string"
            \/ ~Includes(POSITIONS, Get(member, "position").s)
        THEN [msg |-> "InvalidPosition", at |-> i, value |-> Get(member, "position")]
    ELSE IF TypeOf(Get(member, "phone")) # "string"
        THEN [msg |-> "MissingPhone", at |-> i]
    ELSE IF TypeOf(Get(member, "attendance")) # "object" \/ Get(member, "attendance") = Null
        THEN [msg |-> "MissingAttendance", at |-> i]
    ELSE IF FirstBadEntry(Get(member, "attendance")) # 0
        THEN LET e == OwnEntries(Get(member, "attendance"))[FirstBadEntry(Get(member, "attendance"))]
             IN [msg |-> "InvalidAttendanceEntry", name |-> Get(member, "name").s,
                 date |-> e[1], value |-> e[2]]
    ELSE Null

\* the loop of lines 323-343 from data[i] on
RECURSIVE ValidateFrom(_, _, _)
ValidateFrom(items, i, validatedMembers) ==
    IF i > Len(items) THEN Valid(validatedMembers)
    ELSE IF ElementError(items[i], i) # Null THEN Invalid(ElementError(items[i], i))
    ELSE ValidateFrom(items, i + 1, Append(validatedMembers, AsMember(items[i])))

validateImportedData(data) ==
    IF data = Undefined \/ data = Null
        THEN Invalid([msg |-> "EmptyInput"])
    ELSE IF data.t # "array"
        THEN Invalid([msg |-> "NotAnArray"])
    ELSE ValidateFrom(data.items, 1, <<>>)

----------------------------------------------------------------------------
(* Inputs of the validator explored by SpecValidate *)

IdOpts == {Num(1), Str("1")}
NameOpts == {Str("Kim"), Undefined}
PositionOpts == {Str("jipsa"), Str("alsueopseum"), Num(3)}
PhoneOpts == {Str("010-1111-2222"), Undefined}
AttendanceOpts == {Obj(<<>>), Null,
                   Obj(<< <<"2024-01-07", Str("jigak")>> >>),
                   Obj(<< <<"2024-03-03", Str("chulseok")>>, <<"2024-1-7", Str("chulseok")>> >>)}

\* an object literal; a field given as Undefined is a key the text does not have
MkObj(id, name, position, phone, attendance) ==
    Obj(SelectSeq(<< <<"id", id>>, <<"name", name>>, <<"position", position>>,
                     <<"phone", phone>>, <<"attendance", attendance>> >>,
                  LAMBDA p : p[2] # Undefined))

Flaws(id, name, position, phone, attendance) ==
    (IF id = Num(1) THEN 0 ELSE 1) + (IF name = Str("Kim") THEN 0 ELSE 1)
    + (IF position = Str("jipsa") THEN 0 ELSE 1) + (IF phone = Str("010-1111-2222") THEN 0 ELSE 1)
    + (IF attendance = Obj(<<>>) THEN 0 ELSE 1)

\* array elements: objects with at most two flawed fields, two more valid
\* members, and values that are no member objects at all
SampleElements ==
    { MkObj(id, name, position, phone, attendance) :
        <<id, name, position, phone, attendance>> \in
            { f \in IdOpts \X NameOpts \X PositionOpts \X PhoneOpts \X AttendanceOpts :
                Flaws(f[1], f[2], f[3], f[4], f[5]) <= 2 } }
    \cup { MkObj(Num(2), Str("Lee"), Str("gwonsa"), Str("010-3333-4444"),
                 Obj(<< <<"2024-01-07", Str("chulseok")>>, <<"2024-03-03", Str("gyeolseok")>> >>)),
           MkObj(Num(1), Str("Lee"), Str("jipsa"), Str("010"), Obj(<< <<"2024-01-07", Str("chulseok")>> >>)) }
    \cup { Null, Str("Kim"), Arr(<<>>) }

SeqsUpTo(S, n) == UNION { [1..k -> S] : k \in 0..n }

ValidatorInputs ==
    { Undefined, Null, Num(7), Str("[]"), Obj(<< <<"not", Str("an array")>> >>) }
    \cup { Arr(items) : items \in SeqsUpTo(SampleElements, MaxDataLen) }

\* valid Member records, for the round trip through JSON.stringify
SampleMembers ==
    { [id |-> 1, name |-> "Kim", position |-> "jipsa", phone |-> "010-1111-2222", attendance |-> <<>>],
      [id |-> 1, name |-> "Kim", position |-> "jipsa", phone |-> "010-1111-2222",
       attendance |-> << <<"2024-01-07", "chulseok">> >>],
      [id |-> 2, name |-> "Lee", position |-> "gwonsa", phone |-> "010-3333-4444",
       attendance |-> << <<"2024-03-03", "gyeolseok">>, <<"2024-01-07", "chulseok">> >>],
      [id |-> 3, name |-> "Kim_nfd", position |-> "gita", phone |-> "",
       attendance |-> << <<"2024-01-07", "gyeolseok">> >>] }

SampleRosters == SeqsUpTo(SampleMembers, MaxDataLen)

NotRun == Undefined

----------------------------------------------------------------------------
(* SpecValidate: validateImportedData applied to one input *)

InitValidate ==
    /\ selectedMemberIds = {}
    /\ positionFilter = ALL_FILTER
    /\ statusFilter = ALL_FILTER
    /\ viewingDate = getTodayString
    /\ year = CurrentYear
    /\ currentPage = 1
    /\ importPc = "idle"
    /\ importAlert = "none"
    /\ validation = NotRun
    /\ storageOk = TRUE
    /\ mounted = TRUE
    /\ viewingMember = Null
    /\ timeZone = "UTC"
    /\ \/ members = <<>> /\ parsedData \in ValidatorInputs
       \/ members \in SampleRosters /\ parsedData = JSONparse(JSONstringify(members))
    /\ stored = JSONstringify(members)

\* line 641: const { isValid, error, validatedMembers } = validateImportedData(parsedData)
Validate ==
    /\ validation = NotRun
    /\ validation' = validateImportedData(parsedData)
    /\ UNCHANGED <<members, selectedMemberIds, positionFilter, statusFilter, viewingDate,
                   year, currentPage, importPc, importAlert, parsedData, stored, envVars>>

NextValidate == Validate

SpecValidate == InitValidate /\ [][NextValidate]_vars

----------------------------------------------------------------------------
(* Collation and sorting *)

\* the collation key of a name under localeCompare(_, _, 'ko'); "Kim_nfd" is
\* the same name as "Kim" in another Unicode normalisation form, which the
\* collation treats as equal
CollationKey(name) ==
    CASE name = "Kim" -> 1
      [] name = "Kim_nfd" -> 1
      [] name = "Lee" -> 2
      [] name = "Park" -> 3
      [] OTHER -> 0

\* a.localeCompare(b, 'ko')
localeCompare(a, b) ==
    IF CollationKey(a) < CollationKey(b) THEN -1
    ELSE IF CollationKey(a) > CollationKey(b) THEN 1
    ELSE 0

\* InsertByName with a seeded fault: m goes last, whatever its name
InsertAtEnd(sorted, m) == Append(sorted, m)

\* one step of a stable sort: m goes after the elements that do not sort after it
InsertByName(sorted, m) ==
    LET k == Cardinality({ i \in 1..Len(sorted) : localeCompare(sorted[i].name, m.name) <= 0 })
    IN SubSeq(sorted, 1, k) \o <<m>> \o SubSeq(sorted, k + 1, Len(sorted))

\* ms.sort((a, b) => a.name.localeCompare(b.name, 'ko')); Array.prototype.sort is stable
RECURSIVE SortByName(_)
SortByName(ms) ==
    IF ms = <<>> THEN <<>>
    ELSE InsertByName(SortByName(SubSeq(ms, 1, Len(ms) - 1)), ms[Len(ms)])

----------------------------------------------------------------------------
(* Derived views of the App component *)

\* member.attendance[date], undefined when the key is absent
AttendanceAt(m, date) ==
    IF \E k \in 1..Len(m.attendance) : m.attendance[k][1] = date
    THEN m.attendance[CHOOSE k \in 1..Len(m.attendance) : m.attendance[k][1] = date][2]
    ELSE "undefined"

filteredMembers ==
    SelectSeq(members, LAMBDA member :
        /\ (positionFilter = ALL_FILTER \/ member.position = positionFilter)
        /\ (statusFilter = ALL_FILTER \/ AttendanceAt(member, viewingDate) = statusFilter))

Min(a, b) == IF a < b THEN a ELSE b

\* paginatedMembers with a seeded fault: the page number is taken as the
\* number of pages to skip
paginatedMembersSkipping ==
    SubSeq(filteredMembers,
           currentPage * ITEMS_PER_PAGE + 1,
           Min((currentPage + 1) * ITEMS_PER_PAGE, Len(filteredMembers)))

paginatedMembers ==
    SubSeq(filteredMembers,
           (currentPage - 1) * ITEMS_PER_PAGE + 1,
           Min(currentPage * ITEMS_PER_PAGE, Len(filteredMembers)))

----------------------------------------------------------------------------
(* Inputs of the handlers explored by Spec *)

\* what the add form submits
AddForms ==
    { [name |-> "Kim", position |-> "jipsa", phone |-> "010-1111-2222"],
      [name |-> "Lee", position |-> "seongdo", phone |-> "010-3333-4444"],
      [name |-> "Kim_nfd", position |-> "seongdo", phone |-> "010-1111-2222"] }

\* what the edit form submits, next to the id of the member it was opened for
EditForms ==
    { [name |-> "Park", position |-> "gwonsa", phone |-> "010-5555-6666"],
      [name |-> "Kim", position |-> "jipsa", phone |-> "010-5555-6666"] }

Ids == 1..MaxId

Unreadable == [readable |-> FALSE, text |-> [wellFormed |-> FALSE, doc |-> Undefined]]
FileOf(text) == [readable |-> TRUE, text |-> text]
TextOf(doc) == [wellFormed |-> TRUE, doc |-> doc]

\* the files the operator picks for import
ImportFiles ==
    { Unreadable,
      FileOf([wellFormed |-> FALSE, doc |-> Undefined]),
      FileOf(TextOf(Null)),
      FileOf(TextOf(Obj(<< <<"not", Str("an array")>> >>))),
      FileOf(TextOf(Arr(<< MkObj(Num(1), Str("Lee"), Str("alsueopseum"), Str("010"), Obj(<<>>)) >>))),
      FileOf(TextOf(Arr(<< MkObj(Num(1), Str("Kim"), Str("jipsa"), Str("010-1111-2222"),
                                 Obj(<< <<"2024-01-07", Str("chulseok")>> >>)) >>))),
      FileOf(TextOf(Arr(<< MkObj(Num(1), Str("Lee"), Str("gwonsa"), Str("010-3333-4444"), Obj(<<>>)),
                           MkObj(Num(1), Str("Kim"), Str("jipsa"), Str("010-1111-2222"), Obj(<<>>)) >>))),
      FileOf(TextOf(Arr(<<>>))) }

----------------------------------------------------------------------------
(* The roster store: state after construction and the handlers *)

\* Persisted with a seeded fault: the effect hands over the roster of the
\* render before
PersistedStale(ms) == IF storageOk THEN JSONstringify(members) ELSE stored

\* lines 380-406, the effect that runs after every render in which members
\* is another array: what localStorage holds once it has handed ms to setItem
Persisted(ms) == IF storageOk THEN JSONstringify(ms) ELSE stored

\* localStorage held nothing: the roster is initialMembers, the empty list,
\* and the persistence effect has written it on mount
Init ==
    /\ members = <<>>
    /\ stored = JSONstringify(<<>>)
    /\ storageOk = TRUE
    /\ mounted = TRUE
    /\ viewingMember = Null
    /\ timeZone = "UTC"
    /\ selectedMemberIds = {}
    /\ positionFilter = ALL_FILTER
    /\ statusFilter = ALL_FILTER
    /\ viewingDate = getTodayString
    /\ year = CurrentYear
    /\ currentPage = 1
    /\ importPc = "idle"
    /\ importAlert = "none"
    /\ parsedData = Undefined
    /\ validation = NotRun

\* the component is mounted, no alert() of an earlier handler is open and
\* the detail modal does not cover the page
Interactive == importPc # "alert" /\ mounted /\ viewingMember = Null

\* Math.max(...ms.map(m => m.id)) of a non-empty list
MaxIdOf(ms) == CHOOSE x \in { ms[i].id : i \in 1..Len(ms) } : \A i \in 1..Len(ms) : ms[i].id <= x

\* NextId with a seeded fault: the length of the roster plus one
NextIdByLength(prevMembers) == Len(prevMembers) + 1

\* line 493
NextId(prevMembers) == (IF Len(prevMembers) > 0 THEN MaxIdOf(prevMembers) ELSE 0) + 1

\* lines 491-502: the updater handleAddMember passes to setMembers
AddedTo(prevMembers, data) ==
    SortByName(Append(prevMembers,
        [id |-> NextId(prevMembers), name |-> data.name, position |-> data.position,
         phone |-> data.phone, attendance |-> <<>>]))

handleAddMember(data) ==
    /\ Interactive
    /\ Len(members) < MaxMembers
    /\ NextId(members) <= MaxId
    /\ members' = AddedTo(members, data)
    /\ stored' = Persisted(members')
    /\ UNCHANGED <<selectedMemberIds, positionFilter, statusFilter, viewingDate, year,
                   currentPage, importPc, importAlert, parsedData, validation, envVars>>

\* SavedIn with a seeded fault: the first member is overwritten, whatever its id
SavedInFirst(prevMembers, updatedMemberData) ==
    [i \in 1..Len(prevMembers) |->
        IF i = 1
        THEN [prevMembers[i] EXCEPT !.name = updatedMemberData.name,
                                    !.position = updatedMemberData.position,
                                    !.phone = updatedMemberData.phone]
        ELSE prevMembers[i]]

\* lines 507-509: m.id === updatedMemberData.id ? { ...m, ...updatedMemberData } : m
SavedIn(prevMembers, updatedMemberData) ==
    [i \in 1..Len(prevMembers) |->
        IF prevMembers[i].id = updatedMemberData.id
        THEN [prevMembers[i] EXCEPT !.id = updatedMemberData.id,
                                    !.name = updatedMemberData.name,
                                    !.position = updatedMemberData.position,
                                    !.phone = updatedMemberData.phone]
        ELSE prevMembers[i]]

\* EditMemberModal.handleSubmit hands { id: member.id, ...formData } to handleSaveMember
handleSaveMember(updatedMemberData) ==
    /\ Interactive
    /\ members' = SavedIn(members, updatedMemberData)
    /\ stored' = Persisted(members')
    /\ UNCHANGED <<selectedMemberIds, positionFilter, statusFilter, viewingDate, year,
                   currentPage, importPc, importAlert, parsedData, validation, envVars>>

\* Without with a seeded fault: the member at the index equal to the id is removed
WithoutIndex(prevMembers, id) ==
    [i \in 1..(Len(prevMembers) - (IF id <= Len(prevMembers) THEN 1 ELSE 0)) |->
        IF i < id THEN prevMembers[i] ELSE prevMembers[i + 1]]

\* line 515: prevMembers.filter(m => m.id !== memberToDelete.id)
Without(prevMembers, id) == SelectSeq(prevMembers, LAMBDA m : m.id # id)

\* lines 513-522; confirmed is what window.confirm returns
handleDeleteMember(id, confirmed) ==
    /\ Interactive
    /\ IF confirmed
       THEN /\ members' = Without(members, id)
            /\ selectedMemberIds' = selectedMemberIds \ {id}
            /\ stored' = Persisted(members')
       ELSE UNCHANGED <<members, selectedMemberIds, stored>>
    /\ UNCHANGED <<positionFilter, statusFilter, viewingDate, year,
                   currentPage, importPc, importAlert, parsedData, validation, envVars>>

\* lines 465-470: the copy of the attendance map with the date removed or set;
\* a key that is set keeps its place, a new key goes last
NewAttendance(attendance, date, newStatus) ==
    IF newStatus = UNSET
    THEN SelectSeq(attendance, LAMBDA e : e[1] # date)
    ELSE IF \E k \in 1..Len(attendance) : attendance[k][1] = date
         THEN [k \in 1..Len(attendance) |->
                  IF attendance[k][1] = date THEN <<date, newStatus>> ELSE attendance[k]]
         ELSE Append(attendance, <<date, newStatus>>)

\* Marked with a seeded fault: the map of every member is changed
MarkedAll(prevMembers, id, date, newStatus) ==
    [i \in 1..Len(prevMembers) |->
        [prevMembers[i] EXCEPT !.attendance = NewAttendance(@, date, newStatus)]]

\* lines 462-475
Marked(prevMembers, id, date, newStatus) ==
    [i \in 1..Len(prevMembers) |->
        IF prevMembers[i].id = id
        THEN [prevMembers[i] EXCEPT !.attendance = NewAttendance(@, date, newStatus)]
        ELSE prevMembers[i]]

handleAttendanceChange(id, date, newStatus) ==
    /\ Interactive
    /\ members' = Marked(members, id, date, newStatus)
    /\ stored' = Persisted(members')
    /\ UNCHANGED <<selectedMemberIds, positionFilter, statusFilter, viewingDate, year,
                   currentPage, importPc, importAlert, parsedData, validation, envVars>>

\* lines 478-488, for the checkbox of a member on the page shown
handleSelectionChange(id) ==
    /\ Interactive
    /\ \E i \in 1..Len(paginatedMembers) : paginatedMembers[i].id = id
    /\ selectedMemberIds' = IF id \in selectedMemberIds
                            THEN selectedMemberIds \ {id}
                            ELSE selectedMemberIds \cup {id}
    /\ UNCHANGED <<members, positionFilter, statusFilter, viewingDate, year,
                   currentPage, importPc, importAlert, parsedData, validation, stored, envVars>>

\* the ids of the members of ms
IdsOf(ms) == { ms[i].id : i \in 1..Len(ms) }

\* lines 524-537, from the checkbox of the table header and the button of
\* line 761: the page shown is deselected when all of it is selected,
\* selected otherwise
handleSelectAllVisible ==
    LET visibleIds == IdsOf(paginatedMembers)
        allVisibleSelected == Len(paginatedMembers) > 0 /\ visibleIds \subseteq selectedMemberIds
    IN /\ Interactive
       /\ selectedMemberIds' = IF allVisibleSelected
                               THEN selectedMemberIds \ visibleIds
                               ELSE selectedMemberIds \cup visibleIds
       /\ UNCHANGED <<members, positionFilter, statusFilter, viewingDate, year,
                      currentPage, importPc, importAlert, parsedData, validation, stored, envVars>>

\* lines 539-541; the button of line 763 is disabled while nothing is selected
handleClearSelection ==
    /\ Interactive
    /\ selectedMemberIds # {}
    /\ selectedMemberIds' = {}
    /\ UNCHANGED <<members, positionFilter, statusFilter, viewingDate, year,
                   currentPage, importPc, importAlert, parsedData, validation, stored, envVars>>

\* lines 543-552: the telephone numbers handleSendSms puts into the sms: link
smsRecipients ==
    SelectSeq(members, LAMBDA m : m.id \in selectedMemberIds)

\* lines 603-632: a file was picked and the FileReader is reading it
ImportStart ==
    /\ importPc = "idle"
    /\ mounted
    /\ viewingMember = Null
    /\ importPc' = "reading"
    /\ UNCHANGED <<members, selectedMemberIds, positionFilter, statusFilter, viewingDate,
                   year, currentPage, importAlert, parsedData, validation, stored, envVars>>

\* the message of the alert of line 662, "none" when nothing throws before
\* the confirmation of line 646
ImportFailure(file) ==
    IF ~file.readable THEN "FileReadError"
    ELSE IF ~file.text.wellFormed THEN "MalformedJson"
    ELSE IF ~validateImportedData(JSONparse(file.text)).isValid
            \/ validateImportedData(JSONparse(file.text)).validatedMembers = Null
         THEN validateImportedData(JSONparse(file.text)).error.msg
    ELSE "none"

\* ImportedRoster with a seeded fault: the roster is replaced before the confirmation is asked
ImportedRosterUnasked(prevMembers, file, confirmation) ==
    IF ImportFailure(file) # "none" THEN prevMembers
    ELSE SortByName(validateImportedData(JSONparse(file.text)).validatedMembers.items)

\* the roster handleImportData leaves: lines 650-652 when nothing threw and the
\* operator confirmed, the roster as it was otherwise
ImportedRoster(prevMembers, file, confirmation) ==
    IF ImportFailure(file) = "none" /\ confirmation
    THEN SortByName(validateImportedData(JSONparse(file.text)).validatedMembers.items)
    ELSE prevMembers

\* lines 633-662, from the end of the read to the alert; handleResetFilters
\* (lines 454-459), the effect of lines 441-443, which sets the page to 1
\* when one of the three filters changed, and the persistence effect
ImportFinish(file, confirmation) ==
    /\ importPc = "reading"
    /\ importPc' = "alert"
    /\ members' = ImportedRoster(members, file, confirmation)
    /\ IF ImportFailure(file) = "none" /\ confirmation
       THEN /\ importAlert' = "success"
            /\ stored' = Persisted(members')
            /\ positionFilter' = ALL_FILTER
            /\ statusFilter' = ALL_FILTER
            /\ viewingDate' = getTodayString
            /\ year' = CurrentYear
            /\ currentPage' = IF <<positionFilter, statusFilter, viewingDate>>
                                   # <<ALL_FILTER, ALL_FILTER, getTodayString>>
                               THEN 1 ELSE currentPage
       ELSE /\ importAlert' = IF ImportFailure(file) = "none" THEN "cancelled" ELSE ImportFailure(file)
            /\ UNCHANGED <<positionFilter, statusFilter, viewingDate, year, currentPage, stored>>
    /\ UNCHANGED <<selectedMemberIds, parsedData, validation, envVars>>

\* the operator closes the alert; lines 663-665 clear the file input
ImportAlertClosed ==
    /\ importPc = "alert"
    /\ importPc' = "idle"
    /\ importAlert' = "none"
    /\ UNCHANGED <<members, selectedMemberIds, positionFilter, statusFilter, viewingDate,
                   year, currentPage, parsedData, validation, stored, envVars>>

\* Spec: the handlers that change which members the roster holds and what
\* they are called.  The handlers for attendance marks and for the selection
\* act on parts of the state these leave alone; SpecAttendance and
\* SpecSelection explore them.
Next ==
    \/ \E data \in AddForms : handleAddMember(data)
    \/ \E id \in Ids, form \in EditForms :
          handleSaveMember([id |-> id, name |-> form.name, position |-> form.position,
                            phone |-> form.phone])
    \/ \E id \in Ids, confirmed \in BOOLEAN : handleDeleteMember(id, confirmed)
    \/ ImportStart
    \/ \E file \in ImportFiles, confirmation \in BOOLEAN : ImportFinish(file, confirmation)
    \/ ImportAlertClosed

Spec == Init /\ [][Next]_vars

\* the number of attendance entries of the roster
MarksOf(ms) ==
    Cardinality({ p \in (1..Len(ms)) \X DateKeys : AttendanceAt(ms[p[1]], p[2]) # "undefined" })

\* the files of ImportFiles that pass the validator
ValidImportFiles == { file \in ImportFiles : ImportFailure(file) = "none" }

\* the add forms whose names differ under the collation
DistinctAddForms == { data \in AddForms : data.name # "Kim_nfd" }

\* SpecAttendance: members are added, imported and marked; a mark is explored
\* while it leaves the roster with at most MaxMarks entries
NextAttendance ==
    \/ \E data \in DistinctAddForms : handleAddMember(data)
    \/ \E id \in Ids, date \in Dates, newStatus \in {"chulseok", "gyeolseok", UNSET} :
          /\ MarksOf(Marked(members, id, date, newStatus)) <= MaxMarks
          /\ handleAttendanceChange(id, date, newStatus)
    \/ ImportStart
    \/ \E file \in ValidImportFiles, confirmation \in BOOLEAN : ImportFinish(file, confirmation)
    \/ ImportAlertClosed

SpecAttendance == Init /\ [][NextAttendance]_vars

\* SpecSelection: members are added, selected, deleted and imported
NextSelection ==
    \/ \E data \in AddForms : handleAddMember(data)
    \/ \E id \in Ids : handleSelectionChange(id)
    \/ handleSelectAllVisible
    \/ handleClearSelection
    \/ \E id \in Ids, confirmed \in BOOLEAN : handleDeleteMember(id, confirmed)
    \/ ImportStart
    \/ \E file \in ImportFiles, confirmation \in BOOLEAN : ImportFinish(file, confirmation)
    \/ ImportAlertClosed

SpecSelection == Init /\ [][NextSelection]_vars

----------------------------------------------------------------------------
(* Persistence when localStorage.setItem may throw *)

\* the page is opened on an empty localStorage that accepts writes or throws
\* on every setItem (storage disabled or full); the first run of the effect
\* has written the empty roster, or has failed to
InitPersist ==
    /\ members = <<>>
    /\ storageOk \in BOOLEAN
    /\ stored = IF storageOk THEN JSONstringify(<<>>) ELSE Null
    /\ mounted = TRUE
    /\ viewingMember = Null
    /\ timeZone = "UTC"
    /\ selectedMemberIds = {}
    /\ positionFilter = ALL_FILTER
    /\ statusFilter = ALL_FILTER
    /\ viewingDate = getTodayString
    /\ year = CurrentYear
    /\ currentPage = 1
    /\ importPc = "idle"
    /\ importAlert = "none"
    /\ parsedData = Undefined
    /\ validation = NotRun

\* the operator frees space or enables storage: setItem succeeds from now on
StorageRecovers ==
    /\ ~storageOk
    /\ storageOk' = TRUE
    /\ UNCHANGED <<members, selectedMemberIds, positionFilter, statusFilter, viewingDate,
                   year, currentPage, importPc, importAlert, parsedData, validation,
                   stored, mounted, viewingMember, timeZone>>

\* SpecPersist: the five kinds of mutation, on a storage that may refuse
\* writes; add is explored while the roster is shorter than MaxPersistMembers
NextPersist ==
    \/ \E data \in AddForms : Len(members) < MaxPersistMembers /\ handleAddMember(data)
    \/ \E id \in Ids, form \in EditForms :
          handleSaveMember([id |-> id, name |-> form.name, position |-> form.position,
                            phone |-> form.phone])
    \/ \E id \in Ids, confirmed \in BOOLEAN : handleDeleteMember(id, confirmed)
    \/ \E id \in Ids, newStatus \in {"chulseok", UNSET} :
          handleAttendanceChange(id, viewingDate, newStatus)
    \/ ImportStart
    \/ \E file \in ImportFiles, confirmation \in BOOLEAN : ImportFinish(file, confirmation)
    \/ ImportAlertClosed
    \/ StorageRecovers

SpecPersist == InitPersist /\ [][NextPersist]_vars

----------------------------------------------------------------------------
(* Filters and pages *)

\* line 445: Math.ceil(filteredMembers.length / ITEMS_PER_PAGE)
totalPages == (Len(filteredMembers) + ITEMS_PER_PAGE - 1) \div ITEMS_PER_PAGE

\* attendanceCounts with a seeded fault: the members that pass both filters
\* are counted
attendanceCountsOfFiltered ==
    [total |-> Len(filteredMembers),
     present |-> Len(SelectSeq(filteredMembers,
                     LAMBDA m : AttendanceAt(m, viewingDate) = "chulseok")),
     absent |-> Len(SelectSeq(filteredMembers,
                     LAMBDA m : AttendanceAt(m, viewingDate) = "gyeolseok"))]

\* lines 427-437
attendanceCounts ==
    LET membersToCount == SelectSeq(members, LAMBDA member :
                              positionFilter = ALL_FILTER \/ member.position = positionFilter)
    IN [total |-> Len(membersToCount),
        present |-> Len(SelectSeq(membersToCount,
                        LAMBDA m : AttendanceAt(m, viewingDate) = "chulseok")),
        absent |-> Len(SelectSeq(membersToCount,
                        LAMBDA m : AttendanceAt(m, viewingDate) = "gyeolseok"))]

\* lines 441-443: the page after a render in which the three filters are
\* position, status and date; the effect runs when one of them changed
PageAfter(position, status, date) ==
    IF <<position, status, date>> # <<positionFilter, statusFilter, viewingDate>>
    THEN 1 ELSE currentPage

\* line 746: the select of the position filter
setPositionFilter(value) ==
    /\ Interactive
    /\ positionFilter' = value
    /\ currentPage' = PageAfter(value, statusFilter, viewingDate)
    /\ UNCHANGED <<members, selectedMemberIds, statusFilter, viewingDate, year,
                   importPc, importAlert, parsedData, validation, stored, envVars>>

\* lines 717-718 and 726-730: the buttons of the status filter
setStatusFilter(value) ==
    /\ Interactive
    /\ statusFilter' = value
    /\ currentPage' = PageAfter(positionFilter, value, viewingDate)
    /\ UNCHANGED <<members, selectedMemberIds, positionFilter, viewingDate, year,
                   importPc, importAlert, parsedData, validation, stored, envVars>>

\* the dates the calendar of year y offers, among the dates of the model
CalendarDates(y) == IF y = CurrentYear THEN Dates ELSE {}

\* lines 70 and 714: a date of the calendar is picked
setViewingDate(date) ==
    /\ Interactive
    /\ date \in CalendarDates(year)
    /\ viewingDate' = date
    /\ currentPage' = PageAfter(positionFilter, statusFilter, date)
    /\ UNCHANGED <<members, selectedMemberIds, positionFilter, statusFilter, year,
                   importPc, importAlert, parsedData, validation, stored, envVars>>

\* lines 711 and 713: the year navigator, one year back or forth
setYear(step) ==
    /\ Interactive
    /\ year + step >= CurrentYear - MaxYearShift
    /\ year + step <= CurrentYear + MaxYearShift
    /\ year' = year + step
    /\ UNCHANGED <<members, selectedMemberIds, positionFilter, statusFilter, viewingDate,
                   currentPage, importPc, importAlert, parsedData, validation, stored, envVars>>

\* lines 454-459, from the reset button
handleResetFilters ==
    /\ Interactive
    /\ positionFilter' = ALL_FILTER
    /\ statusFilter' = ALL_FILTER
    /\ viewingDate' = getTodayString
    /\ year' = CurrentYear
    /\ currentPage' = PageAfter(ALL_FILTER, ALL_FILTER, getTodayString)
    /\ UNCHANGED <<members, selectedMemberIds, importPc, importAlert, parsedData,
                   validation, stored, envVars>>

\* lines 279-309: Pagination is rendered when totalPages > 1 (line 823); its
\* buttons hand setCurrentPage a number, the one before or the one after
PageChoices ==
    IF totalPages <= 1 THEN {}
    ELSE (1..totalPages)
         \cup (IF currentPage > 1 THEN {currentPage - 1} ELSE {})
         \cup (IF currentPage < totalPages THEN {currentPage + 1} ELSE {})

setCurrentPage(page) ==
    /\ Interactive
    /\ page \in PageChoices
    /\ currentPage' = page
    /\ UNCHANGED <<members, selectedMemberIds, positionFilter, statusFilter, viewingDate,
                   year, importPc, importAlert, parsedData, validation, stored, envVars>>

\* a roster file longer than one page: names, positions and marks vary with the id
ViewLen == ITEMS_PER_PAGE + 1
ViewName(i) == <<"Kim", "Lee", "Park">>[(i % 3) + 1]
ViewPosition(i) == <<"jipsa", "seongdo">>[(i % 2) + 1]
ViewAttendance(i) ==
    CASE i % 4 = 0 -> Obj(<< <<getTodayString, Str("chulseok")>> >>)
      [] i % 4 = 1 -> Obj(<< <<getTodayString, Str("gyeolseok")>> >>)
      [] i % 4 = 2 -> Obj(<<>>)
      [] OTHER -> Obj(<< <<"2024-01-07", Str("gyeolseok")>>, <<getTodayString, Str("chulseok")>> >>)
ViewFile ==
    FileOf(TextOf(Arr([i \in 1..ViewLen |->
        MkObj(Num(i), Str(ViewName(i)), Str(ViewPosition(i)), Str("010-0000-0000"), ViewAttendance(i))])))

\* the files SpecView imports: the long roster and a roster of one member
ViewFiles ==
    { ViewFile,
      FileOf(TextOf(Arr(<< MkObj(Num(1), Str("Kim"), Str("jipsa"), Str("010-1111-2222"),
                                 Obj(<< <<"2024-01-07", Str("chulseok")>> >>)) >>))) }

\* the values SpecView picks in the position select
ViewPositions == {ALL_FILTER, "jipsa"}

\* SpecView: a roster longer than a page is imported; the operator filters,
\* turns pages, deletes a member shown on the page while the roster is longer
\* than a page, and imports again
NextView ==
    \/ \E value \in ViewPositions : setPositionFilter(value)
    \/ \E value \in {ALL_FILTER, "chulseok", "gyeolseok"} : setStatusFilter(value)
    \/ \E date \in Dates : setViewingDate(date)
    \/ \E step \in {-1, 1} : setYear(step)
    \/ handleResetFilters
    \/ \E page \in 1..ViewLen : setCurrentPage(page)
    \/ \E i \in 1..Len(paginatedMembers), confirmed \in BOOLEAN :
          /\ Len(members) > ITEMS_PER_PAGE
          /\ handleDeleteMember(paginatedMembers[i].id, confirmed)
    \/ ImportStart
    \/ \E file \in ViewFiles, confirmation \in BOOLEAN : ImportFinish(file, confirmation)
    \/ ImportAlertClosed

SpecView == Init /\ [][NextView]_vars

----------------------------------------------------------------------------
(* The statistics of the detail modal *)

\* the time zones the browser may be set to
TimeZones == {"Asia/Seoul", "UTC", "America/New_York"}

\* the number the first four characters of a date key denote, which is what
\* date.startsWith(String(year)) compares
YearPrefix(date) == IF date = "2023-03-05" THEN 2023 ELSE 2024

\* new Date(date).getMonth(): a date-only text is midnight UTC of that day,
\* and getMonth() is the month of that instant in the zone of the browser.
\* East of Greenwich and in UTC it is the same day; in America/New_York it is
\* the evening before, which for 2024-03-01 falls in February.
LocalMonth(date, zone) ==
    CASE date = "2024-01-07" -> 0
      [] date = "2024-03-03" -> 2
      [] date = "2024-03-01" -> IF zone = "America/New_York" THEN 1 ELSE 2
      [] date = "2023-03-05" -> 2

\* lines 221 and 225: total > 0 ? ((present / total) * 100).toFixed(0) : 0;
\* toFixed(0) gives the numeral of the nearest integer, the larger one of
\* two; the quotients of the model are exact or far from a half
Rate(present, total) ==
    IF total > 0 THEN (200 * present + total) \div (2 * total) ELSE 0

\* lines 215-228, for the year and the month of new Date() in the zone
memberStats(member, y, month, zone) ==
    LET yearAtt == SelectSeq(member.attendance, LAMBDA e : YearPrefix(e[1]) = y)
        monthAtt == SelectSeq(yearAtt, LAMBDA e : LocalMonth(e[1], zone) = month)
        totalYear == Len(yearAtt)
        presentYear == Len(SelectSeq(yearAtt, LAMBDA e : e[2] = "chulseok"))
        totalMonth == Len(monthAtt)
        presentMonth == Len(SelectSeq(monthAtt, LAMBDA e : e[2] = "chulseok"))
    IN [presentMonth |-> presentMonth, totalMonth |-> totalMonth,
        monthRate |-> Rate(presentMonth, totalMonth),
        presentYear |-> presentYear, totalYear |-> totalYear,
        yearRate |-> Rate(presentYear, totalYear)]

\* what the modal shows for the member it was opened for
stats == memberStats(viewingMember, CurrentYear, CurrentMonth, timeZone)

\* line 791: the name of a member on the page shown is clicked
setViewingMember(member) ==
    /\ Interactive
    /\ \E i \in 1..Len(paginatedMembers) : paginatedMembers[i] = member
    /\ viewingMember' = member
    /\ UNCHANGED <<members, selectedMemberIds, positionFilter, statusFilter, viewingDate,
                   year, currentPage, importPc, importAlert, parsedData, validation,
                   stored, storageOk, mounted, timeZone>>

\* line 856: onClose
closeDetail ==
    /\ viewingMember # Null
    /\ viewingMember' = Null
    /\ UNCHANGED <<members, selectedMemberIds, positionFilter, statusFilter, viewingDate,
                   year, currentPage, importPc, importAlert, parsedData, validation,
                   stored, storageOk, mounted, timeZone>>

\* the page is opened on an empty localStorage, in one of the time zones
InitStats ==
    /\ members = <<>>
    /\ stored = JSONstringify(<<>>)
    /\ storageOk = TRUE
    /\ mounted = TRUE
    /\ viewingMember = Null
    /\ timeZone \in TimeZones
    /\ selectedMemberIds = {}
    /\ positionFilter = ALL_FILTER
    /\ statusFilter = ALL_FILTER
    /\ viewingDate = getTodayString
    /\ year = CurrentYear
    /\ currentPage = 1
    /\ importPc = "idle"
    /\ importAlert = "none"
    /\ parsedData = Undefined
    /\ validation = NotRun

\* rosters with marks in this month, on its first day, in another month and
\* in another year
StatsFiles ==
    { FileOf(TextOf(Arr(<< MkObj(Num(1), Str("Kim"), Str("jipsa"), Str("010-1111-2222"),
                                 Obj(<< <<"2024-01-07", Str("chulseok")>> >>)) >>))),
      FileOf(TextOf(Arr(<< MkObj(Num(1), Str("Kim"), Str("jipsa"), Str("010-1111-2222"),
                                 Obj(<< <<"2024-01-07", Str("gyeolseok")>>,
                                        <<"2023-03-05", Str("chulseok")>> >>)),
                           MkObj(Num(2), Str("Lee"), Str("seongdo"), Str("010-3333-4444"),
                                 Obj(<< <<"2024-03-01", Str("chulseok")>>,
                                        <<"2024-01-07", Str("chulseok")>> >>)) >>))) }

\* SpecStats: rosters are imported, members are marked for today, and the
\* detail modal is opened on a member of the page
NextStats ==
    \/ ImportStart
    \/ \E file \in StatsFiles, confirmation \in BOOLEAN : ImportFinish(file, confirmation)
    \/ ImportAlertClosed
    \/ \E id \in Ids, newStatus \in {"chulseok", "gyeolseok", UNSET} :
          handleAttendanceChange(id, viewingDate, newStatus)
    \/ \E i \in 1..Len(members) : setViewingMember(members[i])
    \/ closeDetail

SpecStats == InitStats /\ [][NextStats]_vars

----------------------------------------------------------------------------
(* Loading the roster: the initializer of lines 350-374 *)

\* lines 358-364: what the migration makes of one parsed record
Migrated(member) ==
    [id |-> member.id, name |-> member.name, position |-> member.position,
     phone |-> member.phone,
     attendance |-> IF HasField(member, "status") /\ member.status # ""
                    THEN << <<getTodayString, member.status>> >>
                    ELSE <<>>]

\* lines 353-366: the parsed array, migrated when its first record has a status
ParsedMembers(item) ==
    LET parsedMembers == [i \in 1..Len(JSONparse(item).items) |-> AsMember(JSONparse(item).items[i])]
    IN IF Len(parsedMembers) > 0 /\ HasField(parsedMembers[1], "status")
       THEN [i \in 1..Len(parsedMembers) |-> Migrated(parsedMembers[i])]
       ELSE parsedMembers

\* lines 350-374: the roster the component starts with.  An item that is
\* absent, or not a well-formed text, or not an array, gives initialMembers:
\* the first by line 369, the others by the catch of line 370
LoadMembers(item) ==
    IF item = Null THEN <<>>
    ELSE IF ~item.wellFormed THEN <<>>
    ELSE IF JSONparse(item).t # "array" THEN <<>>
    ELSE SortByName(ParsedMembers(item))

\* a record as an earlier version of the program saved it: a status and no
\* attendance map
LegacyObj(id, name, position, phone, status) ==
    Obj(<< <<"id", id>>, <<"name", name>>, <<"position", position>>,
           <<"phone", phone>>, <<"status", status>> >>)

\* a record with an attendance map and a status next to it
MkObjWithStatus(id, name, position, phone, attendance, status) ==
    Obj(<< <<"id", id>>, <<"name", name>>, <<"position", position>>,
           <<"phone", phone>>, <<"attendance", attendance>>, <<"status", status>> >>)

LegacyKim == LegacyObj(Num(1), Str("Kim"), Str("jipsa"), Str("010-1111-2222"), Str("chulseok"))
LegacyLee == LegacyObj(Num(2), Str("Lee"), Str("seongdo"), Str("010-3333-4444"), Str("gyeolseok"))
SavedKim == MkObj(Num(1), Str("Kim"), Str("jipsa"), Str("010-1111-2222"),
                  Obj(<< <<"2024-01-07", Str("chulseok")>> >>))
SavedLee == MkObj(Num(2), Str("Lee"), Str("seongdo"), Str("010-3333-4444"), Obj(<<>>))
SavedPark == MkObj(Num(3), Str("Park"), Str("gwonsa"), Str("010-5555-6666"),
                   Obj(<< <<"2024-03-03", Str("gyeolseok")>> >>))

\* what localStorage holds when the page is opened: nothing, a text that does
\* not parse, a text that is no array, arrays this version saved (sorted or
\* left unsorted by an edit), arrays an earlier version saved, and arrays
\* holding records of both kinds
PersistedItems ==
    { Null,
      [wellFormed |-> FALSE, doc |-> Undefined],
      TextOf(Obj(<< <<"not", Str("an array")>> >>)),
      TextOf(Arr(<<>>)),
      TextOf(Arr(<< SavedKim >>)),
      TextOf(Arr(<< SavedKim, SavedLee >>)),
      TextOf(Arr(<< SavedPark, SavedKim >>)),
      TextOf(Arr(<< SavedLee, SavedPark, SavedKim >>)),
      TextOf(Arr(<< LegacyKim >>)),
      TextOf(Arr(<< LegacyLee, LegacyKim >>)),
      TextOf(Arr(<< LegacyKim, SavedLee >>)),
      TextOf(Arr(<< SavedKim, LegacyLee >>)) }

\* lines 430-431: rendering reads m.attendance[viewingDate] of every member
\* and throws when a member has no attendance map; nothing is mounted then
RenderThrows(ms) == \E i \in 1..Len(ms) : ~HasField(ms[i], "attendance")

\* the state after the initializers of the component ran on what localStorage
\* holds; the effects of the first render have not run yet
InitLoad ==
    /\ stored \in PersistedItems
    /\ members = LoadMembers(stored)
    /\ storageOk \in BOOLEAN
    /\ mounted = FALSE
    /\ selectedMemberIds = {}
    /\ positionFilter = ALL_FILTER
    /\ statusFilter = ALL_FILTER
    /\ viewingDate = getTodayString
    /\ year = CurrentYear
    /\ currentPage = 1
    /\ importPc = "idle"
    /\ importAlert = "none"
    /\ parsedData = Undefined
    /\ validation = NotRun
    /\ viewingMember = Null
    /\ timeZone = "UTC"

\* lines 380-406 after the first render: the roster that was loaded is handed
\* to setItem
PersistOnMount ==
    /\ ~mounted
    /\ ~RenderThrows(members)
    /\ stored' = Persisted(members)
    /\ mounted' = TRUE
    /\ UNCHANGED <<members, selectedMemberIds, positionFilter, statusFilter, viewingDate,
                   year, currentPage, importPc, importAlert, parsedData, validation,
                   storageOk, viewingMember, timeZone>>

\* the operator reloads the page: every useState initializer runs again on
\* what localStorage holds now
Reload ==
    /\ importPc # "alert"
    /\ members' = LoadMembers(stored)
    /\ mounted' = FALSE
    /\ selectedMemberIds' = {}
    /\ positionFilter' = ALL_FILTER
    /\ statusFilter' = ALL_FILTER
    /\ viewingDate' = getTodayString
    /\ year' = CurrentYear
    /\ currentPage' = 1
    /\ importPc' = "idle"
    /\ importAlert' = "none"
    /\ viewingMember' = Null
    /\ UNCHANGED <<parsedData, validation, stored, storageOk, timeZone>>

\* files whose records carry a status next to a valid attendance map
StatusFiles ==
    { FileOf(TextOf(Arr(<< MkObjWithStatus(Num(1), Str("Kim"), Str("jipsa"), Str("010-1111-2222"),
                                           Obj(<< <<"2024-01-07", Str("chulseok")>> >>),
                                           Str(UNSET)) >>))),
      FileOf(TextOf(Arr(<< SavedLee, SavedKim >>))) }

\* SpecLoad: the page is opened on what localStorage holds, files are
\* imported, attendance is marked for the viewing date, and the page is
\* reloaded
NextLoad ==
    \/ PersistOnMount
    \/ Reload
    \/ \E id \in Ids, newStatus \in {"chulseok", UNSET} :
          handleAttendanceChange(id, viewingDate, newStatus)
    \/ ImportStart
    \/ \E file \in StatusFiles, confirmation \in BOOLEAN : ImportFinish(file, confirmation)
    \/ ImportAlertClosed

SpecLoad == InitLoad /\ [][NextLoad]_vars

----------------------------------------------------------------------------
(* The validator's rules, stated per element *)

RuleOrder == <<"ElementNotObject", "MissingId", "MissingName", "InvalidPosition",
               "MissingPhone", "MissingAttendance", "InvalidAttendanceEntry">>

PositionNotInEnumeration(el) ==
    ~(Get(el, "position").t = "string" /\ \E k \in 1..Len(POSITIONS) : POSITIONS[k] = Get(el, "position").s)

Breaks(rule, el) ==
    CASE rule = "ElementNotObject" -> el.t \notin {"object", "array"}
      [] rule = "MissingId" -> Get(el, "id").t # "number"
      [] rule = "MissingName" -> Get(el, "name").t # "string"
      [] rule = "InvalidPosition" -> PositionNotInEnumeration(el)
      [] rule = "MissingPhone" -> Get(el, "phone").t # "string"
      [] rule = "MissingAttendance" -> Get(el, "attendance").t \notin {"object", "array"}
      [] rule = "InvalidAttendanceEntry" ->
            /\ Get(el, "attendance").t = "object"
            /\ \E k \in 1..Len(Get(el, "attendance").props) :
                  LET e == Get(el, "attendance").props[k] IN
                  \/ e[1] \notin Dates
                  \/ e[2] \notin {Str("chulseok"), Str("gyeolseok")}

Flawed(el) == \E k \in 1..Len(RuleOrder) : Breaks(RuleOrder[k], el)

FirstBroken(el) ==
    RuleOrder[CHOOSE k \in 1..Len(RuleOrder) :
                /\ Breaks(RuleOrder[k], el)
                /\ \A j \in 1..(k - 1) : ~Breaks(RuleOrder[j], el)]

\* C3: the validator is fail-fast in the stated order: EmptyInput for
\* null/undefined, else NotAnArray for a non-array, else the error of the
\* lowest-index flawed element and, within it, of the first rule it breaks;
\* success with all the elements exactly when no element is flawed.
ValidatorFailFast ==
    validation # NotRun =>
        IF parsedData \in {Undefined, Null}
            THEN ~validation.isValid /\ validation.error.msg = "EmptyInput"
        ELSE IF parsedData.t # "array"
            THEN ~validation.isValid /\ validation.error.msg = "NotAnArray"
        ELSE LET items == parsedData.items
                 bad == { i \in 1..Len(items) : Flawed(items[i]) }
             IN IF bad = {}
                THEN /\ validation.isValid
                     /\ validation.error = Null
                     /\ Len(validation.validatedMembers.items) = Len(items)
                     /\ \A i \in 1..Len(items) :
                           validation.validatedMembers.items[i] = AsMember(items[i])
                ELSE LET i0 == CHOOSE i \in bad : \A j \in bad : i <= j
                     IN /\ ~validation.isValid
                        /\ validation.validatedMembers = Null
                        /\ validation.error.msg = FirstBroken(items[i0])
                        /\ IF validation.error.msg = "InvalidAttendanceEntry"
                           THEN validation.error.name = Get(items[i0], "name").s
                           ELSE validation.error.at = i0

\* the second element breaks two rules, name and position, after a valid first
\* element, and the validator has reported the earlier rule at index 2
ValidatorFailFastWitness ==
    /\ validation # NotRun
    /\ ~validation.isValid
    /\ validation.error.msg = "MissingName"
    /\ validation.error.at = 2
    /\ Breaks("InvalidPosition", parsedData.items[2])
    /\ ~Flawed(parsedData.items[1])

\* C4 as stated: whenever some element's position is not in the enumeration,
\* the validator fails with InvalidPosition citing such an element.
AnyBadPositionIsReported ==
    (/\ validation # NotRun
     /\ parsedData.t = "array"
     /\ \E i \in 1..Len(parsedData.items) :
           parsedData.items[i].t = "object" /\ PositionNotInEnumeration(parsedData.items[i]))
    => /\ ~validation.isValid
       /\ validation.error.msg = "InvalidPosition"
       /\ parsedData.items[validation.error.at].t = "object"
       /\ PositionNotInEnumeration(parsedData.items[validation.error.at])

\* C4 as amended: when every element before index i is valid and element i is
\* an object with a numeric id and a text name whose position is not in the
\* enumeration, the validator fails with InvalidPosition citing i.
FirstBadPositionIsReported ==
    (validation # NotRun /\ parsedData.t = "array") =>
        \A i \in 1..Len(parsedData.items) :
            (/\ \A j \in 1..(i - 1) : ~Flawed(parsedData.items[j])
             /\ parsedData.items[i].t = "object"
             /\ Get(parsedData.items[i], "id").t = "number"
             /\ Get(parsedData.items[i], "name").t = "string"
             /\ PositionNotInEnumeration(parsedData.items[i]))
            => /\ ~validation.isValid
               /\ validation.error.msg = "InvalidPosition"
               /\ validation.error.at = i

\* a valid element, then one whose position is the text "alsueopseum", and the
\* validator has run
FirstBadPositionWitness ==
    /\ validation # NotRun
    /\ parsedData.t = "array"
    /\ Len(parsedData.items) = 2
    /\ ~Flawed(parsedData.items[1])
    /\ Get(parsedData.items[2], "id").t = "number"
    /\ Get(parsedData.items[2], "name").t = "string"
    /\ Get(parsedData.items[2], "position") = Str("alsueopseum")
    /\ ~validation.isValid

\* C5: validating the serialised-then-parsed form of a valid Member sequence
\* succeeds and returns that sequence, element by element and in order, and the
\* validator leaves its input as it was.
ValidatorRoundTrip ==
    [][(/\ validation = NotRun
        /\ validation' # NotRun
        /\ parsedData = JSONparse(JSONstringify(members)))
       => /\ validation'.isValid
          /\ validation'.validatedMembers.t = "array"
          /\ validation'.validatedMembers.items = members
          /\ parsedData' = parsedData
          /\ members' = members]_vars

\* a two-member sequence with both statuses and two dates went through
ValidatorRoundTripWitness ==
    /\ validation # NotRun
    /\ Len(members) = 2
    /\ members[1].id # members[2].id
    /\ \E i \in 1..2 : Len(members[i].attendance) = 2
    /\ parsedData = JSONparse(JSONstringify(members))
    /\ validation.isValid

----------------------------------------------------------------------------
(* The roster store *)

Range(seq) == { seq[i] : i \in 1..Len(seq) }
Count(seq, x) == Cardinality({ i \in 1..Len(seq) : seq[i] = x })

\* the same members, each as often, in whatever order
SameMembers(a, b) == \A x \in Range(a) \cup Range(b) : Count(a, x) = Count(b, x)

HasId(ms, id) == \E i \in 1..Len(ms) : ms[i].id = id

\* C1: an import whose read fails, whose text is no JSON, whose value the
\* validator rejects or whose confirmation is declined leaves the roster as
\* it was, and does not announce success.
FailedImportKeepsRoster ==
    [][\A file \in ImportFiles, confirmation \in BOOLEAN :
          (/\ ImportFinish(file, confirmation)
           /\ \/ ~file.readable
              \/ ~file.text.wellFormed
              \/ ~validateImportedData(JSONparse(file.text)).isValid
              \/ ~confirmation)
          => members' = members /\ importAlert' # "success"]_vars

\* a roster of two members has just come through an import the validator
\* rejected as NotAnArray
FailedImportWitness ==
    /\ importPc = "alert"
    /\ importAlert = "NotAnArray"
    /\ Len(members) = 2

\* C2: no two members of the roster have the same id.
UniqueIds ==
    \A i, j \in 1..Len(members) : i # j => members[i].id # members[j].id

\* C6: add creates exactly one new member, with id 1 in an empty roster and
\* the largest id plus one otherwise, with an empty attendance map and the
\* given name, position and phone; the members there were are all kept as
\* they were.
AddCreatesOneMember ==
    [][\A data \in AddForms :
          handleAddMember(data) =>
            LET newId == IF members = <<>> THEN 1
                         ELSE 1 + CHOOSE x \in { members[i].id : i \in 1..Len(members) } :
                                     \A i \in 1..Len(members) : members[i].id <= x
                newMember == [id |-> newId, name |-> data.name, position |-> data.position,
                              phone |-> data.phone, attendance |-> <<>>]
            IN /\ Len(members') = Len(members) + 1
               /\ SameMembers(members', Append(members, newMember))]_vars

\* ids 1 and 2 were given out, the member with id 1 was deleted, and a third
\* add has given out id 3
AddCreatesOneMemberWitness ==
    /\ Len(members) = 2
    /\ \E i, j \in 1..2 : /\ members[i].id = 2
                          /\ members[j].id = 3
                          /\ members[j].attendance = <<>>
                          /\ members[j].phone \in { f.phone : f \in AddForms }

\* C7: setAttendance(id, date, s) changes only the entry for that date of the
\* member with that id: unset removes the key, a status sets it; the other
\* dates of that member, the other members and all other fields are as they
\* were; with no such member, or unset with no entry, the roster and its
\* serialised form are as they were.
SetAttendanceChangesOneEntry ==
    [][\A id \in Ids, date \in Dates, s \in {"chulseok", "gyeolseok", UNSET} :
          handleAttendanceChange(id, date, s) =>
            /\ Len(members') = Len(members)
            /\ \A i \in 1..Len(members) :
                  IF members[i].id = id
                  THEN /\ members'[i].id = members[i].id
                       /\ members'[i].name = members[i].name
                       /\ members'[i].position = members[i].position
                       /\ members'[i].phone = members[i].phone
                       /\ AttendanceAt(members'[i], date) = (IF s = UNSET THEN "undefined" ELSE s)
                       /\ \A d \in DateKeys \ {date} :
                             AttendanceAt(members'[i], d) = AttendanceAt(members[i], d)
                       /\ \A k, l \in 1..Len(members'[i].attendance) :
                             k # l => members'[i].attendance[k][1] # members'[i].attendance[l][1]
                  ELSE members'[i] = members[i]
            /\ (\/ ~HasId(members, id)
                \/ /\ s = UNSET
                   /\ \A i \in 1..Len(members) :
                         members[i].id = id => AttendanceAt(members[i], date) = "undefined")
               => /\ members' = members
                  /\ JSONstringify(members') = JSONstringify(members)]_vars

\* of two members, one has been marked on both dates, the earlier date
\* overwritten with absent, while the other has no entry
SetAttendanceWitness ==
    /\ Len(members) = 2
    /\ \E i, j \in 1..2 :
          /\ members[i].attendance = << <<"2024-01-07", "gyeolseok">>, <<"2024-03-03", "chulseok">> >>
          /\ members[j].attendance = <<>>
          /\ members[i].id # members[j].id

\* C8: edit replaces only the name, position and phone of the member with the
\* matching id; its id and attendance, the other members and the number of
\* members are as they were; with no such member the roster is as it was.
EditReplacesAttributes ==
    [][\A id \in Ids, form \in EditForms :
          handleSaveMember([id |-> id, name |-> form.name, position |-> form.position,
                            phone |-> form.phone]) =>
            /\ Len(members') = Len(members)
            /\ \A i \in 1..Len(members) :
                  IF members[i].id = id
                  THEN members'[i] = [id |-> members[i].id, name |-> form.name,
                                      position |-> form.position, phone |-> form.phone,
                                      attendance |-> members[i].attendance]
                  ELSE members'[i] = members[i]
            /\ (~HasId(members, id) => members' = members)]_vars

\* a member that has an attendance entry carries the edit form's values next
\* to a member that does not
EditReplacesAttributesWitness ==
    /\ Len(members) = 2
    /\ \E i, j \in 1..2 :
          /\ members[i].name = "Park"
          /\ members[i].phone = "010-5555-6666"
          /\ members[i].attendance # <<>>
          /\ members[j].phone # "010-5555-6666"
          /\ members[j].id # members[i].id

\* C9: a confirmed delete(id) removes the member with that id from the roster
\* and the id from the selection, and leaves the other members, in their
\* order, and the other selected ids; with no such member the roster is as it
\* was; a declined delete changes neither roster nor selection.
DeleteRemovesMemberAndSelection ==
    [][\A id \in Ids, confirmed \in BOOLEAN :
          handleDeleteMember(id, confirmed) =>
            IF confirmed
            THEN LET keep == { i \in 1..Len(members) : members[i].id # id }
                 IN /\ Len(members') = Cardinality(keep)
                    /\ \A k \in 1..Len(members') :
                          members'[k] = members[CHOOSE i \in keep :
                                                   Cardinality({ j \in keep : j <= i }) = k]
                    /\ selectedMemberIds' = { x \in selectedMemberIds : x # id }
                    /\ (~HasId(members, id) => members' = members)
            ELSE members' = members /\ selectedMemberIds' = selectedMemberIds]_vars

\* the members with ids 1 and 2 are gone and the one with id 3 is selected
DeleteWitness ==
    /\ Len(members) = 1
    /\ members[1].id = 3
    /\ selectedMemberIds = {3}

\* the same members, in an order that differs at most among members whose
\* names compare equal
SameUpToTies(a, b) ==
    /\ Len(a) = Len(b)
    /\ SameMembers(a, b)
    /\ \A i \in 1..Len(a) : localeCompare(a[i].name, b[i].name) = 0

\* C10: add followed by delete with the id add assigned restores the roster,
\* up to the order of members whose names compare equal.
AddThenDeleteRestores ==
    \A data \in AddForms :
        SameUpToTies(Without(AddedTo(members, data), NextId(members)), members)

----------------------------------------------------------------------------
(* The attendance maps of the roster *)

\* C11: in every state, every key of every attendance map of the roster
\* matches YYYY-MM-DD and every value is one of the two attendance statuses.
\* It fails: a file whose record carries a status next to its attendance map
\* passes the validator, is saved with the status, and on the next load the
\* migration makes the status the mark of today, whatever it is.
AttendanceWellFormed ==
    \A i \in 1..Len(members) :
        HasField(members[i], "attendance") =>
            \A k \in 1..Len(members[i].attendance) :
                /\ MatchesDatePattern(members[i].attendance[k][1])
                /\ Includes(ATTENDANCE_STATUSES, members[i].attendance[k][2])

----------------------------------------------------------------------------
(* The order of the roster *)

\* non-decreasing by name under the collation
Sorted(ms) == \A i \in 1..(Len(ms) - 1) : localeCompare(ms[i].name, ms[i + 1].name) <= 0

\* C12: after every add and after every confirmed import of a valid file the
\* roster is sorted by name under the collation, and after the import it
\* holds exactly the members the validator returned, each as often, and
\* nothing of the roster before.
AddAndImportSort ==
    [][/\ \A data \in AddForms : handleAddMember(data) => Sorted(members')
       /\ \A file \in ImportFiles :
             ImportFinish(file, TRUE) /\ ImportFailure(file) = "none" =>
                /\ Sorted(members')
                /\ SameMembers(members',
                       validateImportedData(JSONparse(file.text)).validatedMembers.items)]_vars

\* a confirmed import of a file that lists Lee before Kim has put Kim first
AddAndImportSortWitness ==
    /\ importAlert = "success"
    /\ Len(members) = 2
    /\ members[1].name = "Kim"
    /\ members[2].name = "Lee"

----------------------------------------------------------------------------
(* Persistence *)

\* C13: every mutation hands the whole new roster to localStorage: when the
\* write succeeds what is stored is the roster in memory, and when it fails
\* the roster in memory is the result of the mutation all the same and what
\* is stored stays as it was.
MutationsArePersisted ==
    [][/\ \A data \in AddForms :
             handleAddMember(data) =>
                /\ members' = AddedTo(members, data)
                /\ stored' = IF storageOk THEN JSONstringify(members') ELSE stored
       /\ \A id \in Ids, form \in EditForms :
             handleSaveMember([id |-> id, name |-> form.name, position |-> form.position,
                               phone |-> form.phone]) =>
                /\ members' = SavedIn(members, [id |-> id, name |-> form.name,
                                                position |-> form.position, phone |-> form.phone])
                /\ stored' = IF storageOk THEN JSONstringify(members') ELSE stored
       /\ \A id \in Ids :
             handleDeleteMember(id, TRUE) =>
                /\ members' = Without(members, id)
                /\ stored' = IF storageOk THEN JSONstringify(members') ELSE stored
       /\ \A id \in Ids, newStatus \in {"chulseok", UNSET} :
             handleAttendanceChange(id, viewingDate, newStatus) =>
                /\ members' = Marked(members, id, viewingDate, newStatus)
                /\ stored' = IF storageOk THEN JSONstringify(members') ELSE stored
       /\ \A file \in ImportFiles :
             ImportFinish(file, TRUE) /\ ImportFailure(file) = "none" =>
                /\ members' = SortByName(validateImportedData(JSONparse(file.text)).validatedMembers.items)
                /\ stored' = IF storageOk THEN JSONstringify(members') ELSE stored]_vars

\* a member was added, renamed and marked while every write failed: nothing
\* is stored and the roster in memory holds all of it
MutationsArePersistedWitness ==
    /\ ~storageOk
    /\ stored = Null
    /\ Len(members) = 1
    /\ members[1].name = "Park"
    /\ members[1].attendance = << <<getTodayString, "chulseok">> >>

----------------------------------------------------------------------------
(* Filters and pages after an import *)

\* C14: after every confirmed import of a valid file the position filter and
\* the status filter are 'all', the viewing date is today, the year shown is
\* the current year and the page is 1, whatever they were before.  It fails:
\* when the three filters are at their defaults already, the effect that
\* resets the page does not run, and the page stays where it was.
ImportResetsFiltersAndPage ==
    [][\A file \in ViewFiles :
          ImportFinish(file, TRUE) /\ ImportFailure(file) = "none" =>
             /\ positionFilter' = ALL_FILTER
             /\ statusFilter' = ALL_FILTER
             /\ viewingDate' = getTodayString
             /\ year' = CurrentYear
             /\ currentPage' = 1]_vars

\* C15: in every state the page is 1 or at most the number of pages of the
\* filtered list, so a filtered list that is not empty never shows an empty
\* page.  It fails: no handler clamps the page, and deleting the only member
\* shown on the last page leaves the page beyond the last one.
PageIsClamped == currentPage = 1 \/ currentPage <= totalPages

\* the second half of C15, which holds: a step that changes the position
\* filter, the status filter or the viewing date sets the page to 1
FilterChangeResetsPage ==
    [][<<positionFilter, statusFilter, viewingDate>>' # <<positionFilter, statusFilter, viewingDate>>
          => currentPage' = 1]_vars

\* C16: the page shown is the contiguous slice [(page-1)*size, page*size) of
\* the filtered list, in order: never more than size members, and none for a
\* page beyond ceil(length / size).
PaginateIsSlice ==
    LET start == (currentPage - 1) * ITEMS_PER_PAGE
        rest == Len(filteredMembers) - start
    IN /\ Len(paginatedMembers) <= ITEMS_PER_PAGE
       /\ Len(paginatedMembers) = (IF rest <= 0 THEN 0 ELSE Min(ITEMS_PER_PAGE, rest))
       /\ \A k \in 1..Len(paginatedMembers) : paginatedMembers[k] = filteredMembers[start + k]
       /\ (currentPage > totalPages => paginatedMembers = <<>>)

\* page 2 of a list of 16 is its last member
PaginateIsSliceWitness ==
    /\ currentPage = 2
    /\ Len(filteredMembers) = ITEMS_PER_PAGE + 1
    /\ paginatedMembers = << filteredMembers[ITEMS_PER_PAGE + 1] >>

\* a page beyond the last one of a list that is not empty shows no member
PageBeyondLastShowsNothing ==
    /\ currentPage > totalPages
    /\ Len(filteredMembers) > 0
    /\ paginatedMembers = <<>>

----------------------------------------------------------------------------
(* The counters of the status filter buttons *)

\* every member of the roster has one of the two statuses for the viewing date
EveryMemberHasStatus ==
    \A i \in 1..Len(members) : Includes(ATTENDANCE_STATUSES, AttendanceAt(members[i], viewingDate))

CountsConsistent ==
    positionFilter = ALL_FILTER =>
        /\ attendanceCounts.total = Len(members)
        /\ attendanceCounts.present + attendanceCounts.absent <= attendanceCounts.total
        /\ (attendanceCounts.present + attendanceCounts.absent = attendanceCounts.total
               <=> EveryMemberHasStatus)

\* C17: with the position filter at 'all', present + absent <= total for the
\* viewing date, with equality exactly when every member has a status for
\* that date; and a change of the status filter alone changes none of the
\* three counters, whatever the position filter.
CountersIgnoreStatusFilter ==
    [][/\ CountsConsistent
       /\ CountsConsistent'
       /\ (statusFilter' # statusFilter /\ UNCHANGED <<members, positionFilter, viewingDate>>
             => attendanceCounts' = attendanceCounts)]_vars

\* the status filter shows the present members of a roster in which some
\* member has no mark for the viewing date: the counters still count all
CountersIgnoreStatusFilterWitness ==
    /\ positionFilter = ALL_FILTER
    /\ statusFilter = "chulseok"
    /\ Len(filteredMembers) < Len(members)
    /\ attendanceCounts.total = Len(members)
    /\ attendanceCounts.absent > 0
    /\ attendanceCounts.present + attendanceCounts.absent < attendanceCounts.total

----------------------------------------------------------------------------
(* The statistics of a member *)

\* the year and the month (1 to 12) a date key names
DateYear(date) == IF date = "2023-03-05" THEN 2023 ELSE 2024
DateMonth(date) == IF date = "2024-01-07" THEN 1 ELSE 3

\* the entries of a member dated in year y, and those of them dated in month
\* (1 to 12)
EntriesOfYear(member, y) == SelectSeq(member.attendance, LAMBDA e : DateYear(e[1]) = y)
EntriesOfMonth(member, y, month) ==
    SelectSeq(EntriesOfYear(member, y), LAMBDA e : DateMonth(e[1]) = month)
Presents(entries) == Len(SelectSeq(entries, LAMBDA e : e[2] = "chulseok"))

\* r is the percentage present / total as an integer, 0 for no entries
IsPercentage(r, present, total) ==
    IF total = 0 THEN r = 0
    ELSE /\ r \in 0..100
         /\ 2 * (r * total - 100 * present) <= total
         /\ 2 * (100 * present - r * total) <= total

\* C18: for the member the modal shows, totalYear and presentYear count the
\* entries dated in the year and the present ones among them, totalMonth and
\* presentMonth those dated in the month of that year, so that presentMonth
\* <= totalMonth <= totalYear and presentMonth <= presentYear <= totalYear,
\* and each rate is 0 for a total of 0 and the integer percentage otherwise.
\* It fails west of Greenwich: an entry dated on the first day of the month
\* is counted in the month before.
StatsCountEntriesOfMonth ==
    viewingMember # Null =>
        /\ stats.totalYear = Len(EntriesOfYear(viewingMember, CurrentYear))
        /\ stats.presentYear = Presents(EntriesOfYear(viewingMember, CurrentYear))
        /\ stats.totalMonth = Len(EntriesOfMonth(viewingMember, CurrentYear, CurrentMonth + 1))
        /\ stats.presentMonth = Presents(EntriesOfMonth(viewingMember, CurrentYear, CurrentMonth + 1))
        /\ stats.presentMonth <= stats.totalMonth
        /\ stats.totalMonth <= stats.totalYear
        /\ stats.presentMonth <= stats.presentYear
        /\ stats.presentYear <= stats.totalYear
        /\ IsPercentage(stats.yearRate, stats.presentYear, stats.totalYear)
        /\ IsPercentage(stats.monthRate, stats.presentMonth, stats.totalMonth)

\* what holds of C18 in every zone: the inequalities and the rates
StatsAreOrdered ==
    viewingMember # Null =>
        /\ stats.totalYear = Len(EntriesOfYear(viewingMember, CurrentYear))
        /\ stats.presentYear = Presents(EntriesOfYear(viewingMember, CurrentYear))
        /\ stats.presentMonth <= stats.totalMonth
        /\ stats.totalMonth <= stats.totalYear
        /\ stats.presentMonth <= stats.presentYear
        /\ stats.presentYear <= stats.totalYear
        /\ IsPercentage(stats.yearRate, stats.presentYear, stats.totalYear)
        /\ IsPercentage(stats.monthRate, stats.presentMonth, stats.totalMonth)

\* C18 where the zone is not west of Greenwich
StatsCountEntriesOfMonthEast ==
    timeZone # "America/New_York" => StatsCountEntriesOfMonth

----------------------------------------------------------------------------
(* The migration on load *)

\* a record of the saved array that has a status and no attendance map
ExposesStatus(o) == Get(o, "status") # Undefined /\ Get(o, "attendance") = Undefined

\* the record of the saved array was loaded as the claim says: a record with
\* a status and no attendance map got the status as the mark of today and
\* lost the status, a record with an attendance map kept its map
LoadedAsMigrated(o) ==
    \E j \in 1..Len(members) :
        /\ members[j].id = Get(o, "id").n
        /\ HasField(members[j], "attendance")
        /\ IF ExposesStatus(o)
           THEN /\ members[j].attendance = << <<getTodayString, Get(o, "status").s>> >>
                /\ ~HasField(members[j], "status")
           ELSE Get(o, "attendance") # Undefined =>
                   members[j].attendance = AsMember(o).attendance

\* C19: when the saved array holds a record with a status and no attendance
\* map, every such record is loaded with attendance {today: status} and
\* without the status, and every record with an attendance map is loaded
\* with its map unchanged.  It fails: the loader looks at the first record
\* only, and then migrates every record or none.
LegacyRecordsAreMigrated ==
    (/\ ~mounted
     /\ stored # Null
     /\ stored.wellFormed
     /\ JSONparse(stored).t = "array"
     /\ \E i \in 1..Len(JSONparse(stored).items) : ExposesStatus(JSONparse(stored).items[i]))
    => \A i \in 1..Len(JSONparse(stored).items) : LoadedAsMigrated(JSONparse(stored).items[i])

\* what holds of C19: an array in which every record has a status and no
\* attendance map is migrated record by record
LegacyArraysAreMigrated ==
    (/\ ~mounted
     /\ stored # Null
     /\ stored.wellFormed
     /\ JSONparse(stored).t = "array"
     /\ Len(JSONparse(stored).items) > 0
     /\ \A i \in 1..Len(JSONparse(stored).items) : ExposesStatus(JSONparse(stored).items[i]))
    => \A i \in 1..Len(JSONparse(stored).items) : LoadedAsMigrated(JSONparse(stored).items[i])

----------------------------------------------------------------------------
(* The order of the roster after an edit *)

\* C20: after every edit the roster is sorted by name under the collation.
\* It fails: handleSaveMember replaces the member in place and does not sort.
EditKeepsRosterSorted ==
    [][\A id \in Ids, form \in EditForms :
          handleSaveMember([id |-> id, name |-> form.name, position |-> form.position,
                            phone |-> form.phone]) => Sorted(members')]_vars

\* C21: in every reachable state every id of the selection is the id of a
\* member of the roster
SelectionRefersToMembers ==
    selectedMemberIds \subseteq IdsOf(members)

\* supplementary to C21: the count shown on line 759 is the number of
\* recipients of handleSendSms; a confirmed import breaks it as well
SelectedCountIsRecipients ==
    Cardinality(selectedMemberIds) = Len(smsRecipients)

\* supplementary to C21: every step that is not a confirmed import keeps the
\* selection within the roster (select, select all, clear, add, delete)
SelectionKeptByOtherHandlers ==
    [][(SelectionRefersToMembers /\ ~(importPc = "reading" /\ members' # members))
          => SelectionRefersToMembers']_vars

\* supplementary to C21: an imported member whose id was selected before the
\* import is never shown as selected after it; handleImportData leaves
\* selectedMemberIds as it was, so this fails too
ImportedMemberNotPreselected ==
    [][(importPc = "reading" /\ importAlert' = "success")
          => selectedMemberIds' \cap IdsOf(members') = {}]_vars
====
